---- MODULE Spec2Model ----
(***************************************************************************)
(* Model of the equity enrichment pipeline (src/equity_pipeline):          *)
(*   - retry_on_failure          (enrichers/base.py)                        *)
(*   - BaseEnricher / enrich     (enrichers/base.py, enrichers/*.py)        *)
(*   - DatabaseManager           (database.py)                              *)
(*   - EnrichmentPipeline.run    (main.py)                                  *)
(*                                                                         *)
(* Python dicts are functions whose domain is the set of keys.  Python     *)
(* None is the value Null.  The external world (the Supabase store, the    *)
(* providers behind the enrichers) is a nondeterministic choice of what a  *)
(* call returns or raises.                                                 *)
(***************************************************************************)
EXTENDS Integers, Sequences, FiniteSets, TLC

----------------------------------------------------------------------------
(* Bounds of the model *)

MaxCompanies == 2       \* rows of the company table
MaxSaveFrequency == 2   \* Config.save_frequency ranges over 1..MaxSaveFrequency
MaxRuns == 2            \* run() calls on one pipeline instance
NumEnrichers == 2       \* length of the enabled-enricher list
MaxRetries == 3         \* retry_on_failure(max_retries=R), R in 0..MaxRetries
MaxFilings == 21        \* filings EDGAR returns for one company: 0 .. MaxFilings
MaxUrls == 1            \* presentation URLs in one LLM answer: 0 .. MaxUrls
MaxBatch == 3           \* length of the sequence given to batch_update_companies
MaxDelay == 2           \* retry_on_failure(delay=D), D in 1..MaxDelay

----------------------------------------------------------------------------
(* Values *)

Null == -2                        \* Python None, as a field value
NullTicker == "<None>"             \* Python None, as a Ticker value
NoLimit == -1                     \* run(limit=None)
EnrichMaxRetries == 2             \* @retry_on_failure(max_retries=2, ...)
StoreCap == 20                    \* filings[:20]
UrlBase == 10                     \* see UrlList
DefaultSaveFrequency == 5         \* save_frequency: int = 5
DefaultMaxRetries == 2            \* max_retries: int = 2
DefaultRetryDelay == 1            \* retry_delay: float = 1.0
EnrichDelay == 1                  \* @retry_on_failure(..., delay=1.0)

Fields == {"x", "y"}              \* result-field names a provider can fill
Exceptions == {"ConnectionError", "ValueError"}   \* subclasses of Exception
ProviderErrors == {"ConnectionError"}             \* what a provider raises
TickerNames == <<"AAPL", "MSFT", "GOOG", "AMZN">>

EmptyMap == [k \in {} |-> Null]   \* the dict {}

\* What a provider hands back for one company: every field, possibly None.
Payloads ==
    {[x |-> Null, y |-> Null], [x |-> 1, y |-> Null], [x |-> 2, y |-> 1]}

\* Row kinds of the company table: a ticker, an empty ticker, no Ticker key.
RowKinds == {"ticker", "empty", "missing"}

CompanyRow(i, kind) ==
    IF kind = "ticker" THEN [Ticker |-> TickerNames[i]]
    ELSE IF kind = "empty" THEN [Ticker |-> ""]
    ELSE IF kind = "null" THEN [Ticker |-> NullTicker]
    ELSE EmptyMap

Min(a, b) == IF a < b THEN a ELSE b

----------------------------------------------------------------------------
(* dict operations *)

\* d.update(r): keys of r overwrite keys of d (main.py:113, :84, :85)
DictUpdateFirstWins(d, r) ==
    [k \in (DOMAIN d) \cup (DOMAIN r) |-> IF k \in DOMAIN d THEN d[k] ELSE r[k]]

DictUpdate(d, r) ==
    [k \in (DOMAIN d) \cup (DOMAIN r) |-> IF k \in DOMAIN r THEN r[k] ELSE d[k]]

\* {k: v for k, v in d.items() if v is not None}
CleanNone(d) == [k \in {f \in DOMAIN d : d[f] # Null} |-> d[k]]

\* Python truthiness of a dict / list
Truthy(d) == DOMAIN d # {}

----------------------------------------------------------------------------
(* Config (config.py)                                                      *)

\* os.getenv(name) of a variable that is not set
Unset == "<unset>"

EnvValues == {Unset, "", "set"}

Environs == [SUPABASE_URL : EnvValues, SUPABASE_KEY : EnvValues]

GoodEnviron == [SUPABASE_URL |-> "set", SUPABASE_KEY |-> "set"]

\* `not value` for a credential: None or the empty string
Falsy(v) == v \in {Unset, ""}

NoConfig ==
    [supabase_url |-> Unset, supabase_key |-> Unset, max_retries |-> Null,
     retry_delay |-> Null, built |-> FALSE]

\* The dataclass fields with their defaults (config.py:16-21)
ConfigFields(env) ==
    [supabase_url |-> env.SUPABASE_URL, supabase_key |-> env.SUPABASE_KEY,
     max_retries |-> DefaultMaxRetries, retry_delay |-> DefaultRetryDelay,
     built |-> TRUE]

\* __post_init__ (config.py:30-32): ValueError unless both credentials are
\* present and non-empty
PostInitRaisesUrlOnly(c) == Falsy(c.supabase_url)

PostInitRaises(c) == Falsy(c.supabase_url) \/ Falsy(c.supabase_key)

\* Config(): the instance, or the exception of __post_init__
NewConfig(env) ==
    IF PostInitRaises(ConfigFields(env))
    THEN [raised |-> TRUE, config |-> NoConfig, save_frequency |-> Null]
    ELSE [raised |-> FALSE, config |-> ConfigFields(env),
          save_frequency |-> DefaultSaveFrequency]

DefaultConfig == ConfigFields(GoodEnviron)

\* Config instances that differ in max_retries and retry_delay only
Configs ==
    {[DefaultConfig EXCEPT !.max_retries = r, !.retry_delay = d] :
        r \in 0 .. MaxRetries, d \in 1 .. MaxDelay}

----------------------------------------------------------------------------
(* retry_on_failure (enrichers/base.py:13-33)                              *)
(* A frame is the state of one call of wrapper(): the loop index, the      *)
(* last exception, and what the call has logged and slept so far.          *)

NewFrame(R, D) ==
    [max_retries |-> R, delay |-> D, attempt |-> 0, status |-> "running",
     last_exception |-> "None", value |-> EmptyMap, raised |-> "None",
     warnings |-> 0, errors |-> 0, sleeps |-> <<>>,
     trace |-> <<>>, provider_calls |-> 0, upserts |-> 0]

\* range(max_retries + 1)  (base.py:20)
RetryRangeOffByOne(R) == 0 .. (R - 1)

RetryRange(R) == 0 .. R

\* The except branch of one iteration (base.py:23-29): remember the
\* exception, then warn and sleep, or log the final error.
WrapperExceptAlwaysWarn(f, exc) ==
    LET g == [f EXCEPT !.last_exception = exc]
    IN  [g EXCEPT !.warnings = @ + 1,
                  !.sleeps = Append(@, f.delay * (f.attempt + 1))]

WrapperExceptZeroBased(f, exc) ==
    LET g == [f EXCEPT !.last_exception = exc]
    IN  IF f.attempt < f.max_retries
        THEN [g EXCEPT !.warnings = @ + 1,
                       !.sleeps = Append(@, f.delay * f.attempt)]
        ELSE [g EXCEPT !.errors = @ + 1]

WrapperExcept(f, exc) ==
    LET g == [f EXCEPT !.last_exception = exc]
    IN  IF f.attempt < f.max_retries
        THEN [g EXCEPT !.warnings = @ + 1,
                       !.sleeps = Append(@, f.delay * (f.attempt + 1))]
        ELSE [g EXCEPT !.errors = @ + 1]

\* One iteration of the for loop of wrapper() (base.py:20-31); out is what
\* func() did: [kind |-> "return", value |-> v] or
\* [kind |-> "raise", exc |-> e].  When the range is exhausted the loop is
\* left and `raise last_exception` is reached.
WrapperStep(f, out) ==
    IF out.kind = "return"
    THEN [f EXCEPT !.status = "returned", !.value = out.value]
    ELSE LET g == WrapperExcept(f, out.exc)
         IN  IF (f.attempt + 1) \in RetryRange(f.max_retries)
             THEN [g EXCEPT !.attempt = f.attempt + 1]
             ELSE [g EXCEPT !.attempt = f.attempt + 1,
                            !.status = "raised",
                            !.raised = g.last_exception]

----------------------------------------------------------------------------
(* Enrichers (enrichers/base.py:36-50 and the enrich methods)              *)

\* BaseEnricher.validate_input: 'Ticker' in company and company['Ticker']
validate_inputKeyOnly(company) == "Ticker" \in DOMAIN company

validate_input(company) ==
    "Ticker" \in DOMAIN company /\ company["Ticker"] \notin {"", NullTicker}

\* @retry_on_failure(max_retries=2, delay=1.0) on every enrich method
\* (base.py:43, yahoo_finance.py:18, isin.py:18, sector_classification.py:16,
\* sec_filings.py:48, llm_investor_information.py:47): the policy is fixed
\* when the class is defined; self.config is not consulted.
EnrichPolicyFromConfig(cfg) ==
    [max_retries |-> cfg.max_retries, delay |-> cfg.retry_delay]

EnrichPolicy(cfg) ==
    [max_retries |-> EnrichMaxRetries, delay |-> EnrichDelay]

\* What the provider behind an enricher does when it is called.
ProviderOutcomes ==
    {[kind |-> "raise", exc |-> e, payload |-> EmptyMap] : e \in ProviderErrors}
    \cup {[kind |-> "return", exc |-> "None", payload |-> p] : p \in Payloads}

\* The body of enrich(): validate, call the provider, drop the None values;
\* a provider failure is logged and re-raised (yahoo_finance.py:19-48).
EnrichBody(company, prov) ==
    IF ~validate_input(company)
    THEN [kind |-> "return", value |-> EmptyMap, exc |-> "None",
          provider_calls |-> 0, upserts |-> 0]
    ELSE IF prov.kind = "raise"
    THEN [kind |-> "raise", value |-> EmptyMap, exc |-> prov.exc,
          provider_calls |-> 1, upserts |-> 0]
    ELSE [kind |-> "return", value |-> CleanNone(prov.payload),
          exc |-> "None", provider_calls |-> 1, upserts |-> 0]

\* The enricher classes (enrichers/__init__.py:13-20)
EnricherClasses ==
    <<"YahooFinanceEnricher", "ISINEnricher", "SectorClassificationEnricher",
      "SECFilingsEnricher", "LLMInvestorInformationEnricher">>

\* d.get(k): None when the key is absent
Get(d, k) == IF k \in DOMAIN d THEN d[k] ELSE Null

\* A list of n URLs is represented by UrlBase + n, so that every field value
\* is an integer; ListLen is len() of such a list.
UrlList(n) == UrlBase + n

ListLen(v) == v - UrlBase

\* ISINEnricher.enrich and SectorClassificationEnricher.enrich: placeholders
\* that return {} without calling any provider (isin.py:19-40,
\* sector_classification.py:17-28)
PlaceholderBody(company) ==
    IF ~validate_input(company)
    THEN [kind |-> "return", value |-> EmptyMap, exc |-> "None",
          provider_calls |-> 0, upserts |-> 0]
    ELSE [kind |-> "return", value |-> EmptyMap, exc |-> "None",
          provider_calls |-> 0, upserts |-> 0]

\* What EDGAR does for one Company(ticker) lookup: it raises, finds no
\* company, or yields a company with some filings in the lookback window
\* (has_10k: one of them is a 10-K); db_ok: DatabaseManager(config) could be
\* constructed by _store_detailed_filings.
SECOutcomes ==
    {[kind |-> "raise", exc |-> e, filings |-> 0, has_10k |-> FALSE,
      db_ok |-> FALSE] : e \in ProviderErrors}
    \cup {[kind |-> "not_found", exc |-> "None", filings |-> 0,
           has_10k |-> FALSE, db_ok |-> FALSE]}
    \cup {[kind |-> "found", exc |-> "None", filings |-> n, has_10k |-> h,
           db_ok |-> d] :
             n \in 0 .. MaxFilings, h \in BOOLEAN, d \in BOOLEAN}

\* _store_detailed_filings (sec_filings.py:156-195): one upsert into
\* company_filings for each of the first StoreCap filings; every failure is
\* swallowed.  Returns the number of upsert calls made.
store_detailed_filingsUncapped(filings, db_ok) ==
    IF db_ok THEN filings ELSE 0

store_detailed_filings(filings, db_ok) ==
    IF db_ok THEN Min(filings, StoreCap) ELSE 0

\* SECFilingsEnricher.enrich (sec_filings.py:48-97): the enriched data is
\* returned as built, None values included, after the detailed filings were
\* stored.
SECBody(company, prov) ==
    IF ~validate_input(company)
    THEN [kind |-> "return", value |-> EmptyMap, exc |-> "None",
          provider_calls |-> 0, upserts |-> 0]
    ELSE IF prov.kind = "raise"
    THEN [kind |-> "raise", value |-> EmptyMap, exc |-> prov.exc,
          provider_calls |-> 1, upserts |-> 0]
    ELSE IF prov.kind = "not_found"
    THEN [kind |-> "return", value |-> EmptyMap, exc |-> "None",
          provider_calls |-> 1, upserts |-> 0]
    ELSE [kind |-> "return",
          value |-> [sec_filings_count |-> prov.filings,
                     sec_latest_10k |-> IF prov.has_10k /\ prov.filings >= 1
                                        THEN 1 ELSE Null],
          exc |-> "None", provider_calls |-> 1,
          upserts |-> store_detailed_filings(prov.filings, prov.db_ok)]

\* The JSON objects the LLM may answer with: any of the keys may be absent
\* or null (the prompt asks for null when the information is not found).
LLMKeys ==
    {"primary_website", "investor_section_url", "corporate_presentation_urls"}

LLMValues(k) ==
    IF k = "corporate_presentation_urls"
    THEN {Null} \cup {UrlList(n) : n \in 0 .. MaxUrls}
    ELSE {Null, 1}

LLMObjects ==
    UNION {{d \in [K -> {Null, 1} \cup {UrlList(n) : n \in 0 .. MaxUrls}] :
               \A k \in K : d[k] \in LLMValues(k)} : K \in SUBSET LLMKeys}

\* What Gemini does for one generate_content call: it raises, answers with
\* text that _parse_llm_response cannot turn into a dict, or with an object.
LLMOutcomes ==
    {[kind |-> "raise", exc |-> e, data |-> EmptyMap] : e \in ProviderErrors}
    \cup {[kind |-> "unparseable", exc |-> "None", data |-> EmptyMap]}
    \cup {[kind |-> "dict", exc |-> "None", data |-> d] : d \in LLMObjects}

\* LLMInvestorInformationEnricher.enrich (llm_investor_information.py:47-96)
LLMBody(company, prov) ==
    IF ~validate_input(company)
    THEN [kind |-> "return", value |-> EmptyMap, exc |-> "None",
          provider_calls |-> 0, upserts |-> 0]
    ELSE IF prov.kind = "raise"
    THEN [kind |-> "raise", value |-> EmptyMap, exc |-> prov.exc,
          provider_calls |-> 1, upserts |-> 0]
    ELSE IF prov.kind = "unparseable" \/ ~Truthy(prov.data)
    THEN [kind |-> "return", value |-> EmptyMap, exc |-> "None",
          provider_calls |-> 1, upserts |-> 0]
    ELSE IF /\ "corporate_presentation_urls" \in DOMAIN prov.data
            /\ prov.data["corporate_presentation_urls"] = Null
    THEN [kind |-> "raise", value |-> EmptyMap, exc |-> "TypeError",
          provider_calls |-> 1, upserts |-> 0]
    ELSE [kind |-> "return",
          value |-> CleanNone(
             [llm_primary_website |-> Get(prov.data, "primary_website"),
              llm_investor_section_url |->
                  Get(prov.data, "investor_section_url"),
              llm_corporate_presentations |->
                  Get(prov.data, "corporate_presentation_urls"),
              llm_presentations_count |->
                  IF "corporate_presentation_urls" \in DOMAIN prov.data
                  THEN ListLen(prov.data["corporate_presentation_urls"])
                  ELSE 0,
              llm_enrichment_model |-> 1,
              llm_last_updated |-> 1]),
          exc |-> "None", provider_calls |-> 1, upserts |-> 0]

\* The placeholders call no provider
NoProvider == [kind |-> "none", exc |-> "None"]

\* What the provider behind an enricher class can do when it is called
OutcomesOf(cls) ==
    IF cls = "YahooFinanceEnricher" THEN ProviderOutcomes
    ELSE IF cls = "SECFilingsEnricher" THEN SECOutcomes
    ELSE IF cls = "LLMInvestorInformationEnricher" THEN LLMOutcomes
    ELSE {NoProvider}

\* cls.enrich(company), undecorated
EnrichOf(cls, company, prov) ==
    IF cls = "YahooFinanceEnricher" THEN EnrichBody(company, prov)
    ELSE IF cls = "SECFilingsEnricher" THEN SECBody(company, prov)
    ELSE IF cls = "LLMInvestorInformationEnricher" THEN LLMBody(company, prov)
    ELSE PlaceholderBody(company)

----------------------------------------------------------------------------
(* DatabaseManager (database.py)                                           *)

\* fetch_companies(limit): `if limit:` applies the limit (database.py:21-29)
fetch_companies(table, limit) ==
    IF limit = NoLimit \/ limit = 0
    THEN table
    ELSE SubSeq(table, 1, Min(limit, Len(table)))

\* update_company(ticker, updates): the call and whether the store took it;
\* a failure is logged and re-raised (database.py:31-38)
update_company(ticker, updates, ok) ==
    [ticker |-> ticker, updates |-> updates, ok |-> ok]

\* batch_update_companies(updates) (database.py:40-45).  failAt is the
\* position of the update whose update_company call raises (0: none).
\* Returns the update_company calls made and whether the batch raised.
RECURSIVE BatchFromNoSkip(_, _, _, _)
BatchFromNoSkip(updates, i, failAt, calls) ==
    IF i > Len(updates)
    THEN [calls |-> calls, raised |-> FALSE]
    ELSE LET call == update_company(IF "Ticker" \in DOMAIN updates[i]
                                    THEN updates[i]["Ticker"] ELSE "Unknown",
                                    updates[i], i # failAt)
         IN  IF call.ok
             THEN BatchFromNoSkip(updates, i + 1, failAt, Append(calls, call))
             ELSE [calls |-> Append(calls, call), raised |-> TRUE]

RECURSIVE BatchFromBestEffort(_, _, _, _)
BatchFromBestEffort(updates, i, failAt, calls) ==
    IF i > Len(updates)
    THEN [calls |-> calls,
          raised |-> \E c \in 1 .. Len(calls) : ~calls[c].ok]
    ELSE IF "Ticker" \in DOMAIN updates[i]
    THEN BatchFromBestEffort(updates, i + 1, failAt,
            Append(calls, update_company(updates[i]["Ticker"], updates[i],
                                         i # failAt)))
    ELSE BatchFromBestEffort(updates, i + 1, failAt, calls)

RECURSIVE BatchFrom(_, _, _, _)
BatchFrom(updates, i, failAt, calls) ==
    IF i > Len(updates)
    THEN [calls |-> calls, raised |-> FALSE]
    ELSE IF "Ticker" \in DOMAIN updates[i]
    THEN LET call == update_company(updates[i]["Ticker"], updates[i], i # failAt)
         IN  IF call.ok
             THEN BatchFrom(updates, i + 1, failAt, Append(calls, call))
             ELSE [calls |-> Append(calls, call), raised |-> TRUE]
    ELSE BatchFrom(updates, i + 1, failAt, calls)

batch_update_companies(updates, failAt) == BatchFrom(updates, 1, failAt, <<>>)

----------------------------------------------------------------------------
(* EnrichmentPipeline (main.py)                                            *)

VARIABLES
    environ,            \* os.environ after load_dotenv(): the credentials
    config,             \* the Config instance (NoConfig before it exists)
    save_frequency,     \* Config.save_frequency
    companies_bbt,      \* the rows of the company table, in storage order
    results_buffer,     \* self.results_buffer
    processed_count,    \* self.processed_count
    pc,                 \* position in run(), or in a wrapper() call
    companies,          \* run(): the fetched rows
    idx,                \* run(): 1-based position of the current company
    ticker,             \* run(): company.get('Ticker', 'Unknown')
    enriched_data,      \* the aggregate mapping of the current company
    eidx,               \* _enrich_company(): position in self.enrichers
    w,                  \* frame of the wrapper() call in progress
    summary,            \* the counts of the last "Pipeline completed" line
    runs,               \* number of run() calls started on this instance
    obs                 \* what the current run() has done so far (history)

vars == <<environ, config, save_frequency, companies_bbt, results_buffer, processed_count, pc,
          companies, idx, ticker, enriched_data, eidx, w, summary, runs, obs>>

\* ENABLED_ENRICHERS, instantiated in order by _initialize_enrichers
\* (main.py:33-39, 56-62)
ENABLED_ENRICHERS == [i \in 1 .. NumEnrichers |-> i]

Limits == {NoLimit} \cup (0 .. MaxCompanies)

Tables ==
    UNION {{[i \in 1 .. n |-> CompanyRow(i, kinds[i])] :
               kinds \in [1 .. n -> RowKinds]} : n \in 0 .. MaxCompanies}

NoSummary == [processed |-> -1, total |-> -1]

IdleFrame == [NewFrame(EnrichMaxRetries, EnrichDelay) EXCEPT !.status = "idle"]

NoFlush == [batch |-> <<>>, calls |-> <<>>, ok |-> TRUE, at |-> 0]

\* The entries of a buffer are told apart by their last_enriched timestamp.
Ids(buf) == {buf[i]["last_enriched"] : i \in 1 .. Len(buf)}

\* History of one run(): reset when run() is entered.
NewObs ==
    [fetch_failed |-> FALSE,   \* fetch_companies raised
     visited |-> <<>>,         \* positions the for loop has entered
     enrich_calls |-> 0,       \* current company: enricher.enrich calls
     outcomes |-> <<>>,        \* current company: how each enricher ended
     first_raise |-> 0,        \* first position at which an enricher raised
     appended |-> <<>>,        \* timestamps of the entries appended
     flushes |-> 0,            \* batch_update_companies calls
     failed_flushes |-> 0,     \* ... that raised
     errors_logged |-> 0,      \* "Failed to save buffer" lines
     step_flushes |-> 0,       \* flushes of the current company's step
     last_flush |-> NoFlush,   \* the last batch_update_companies call
     failed_ids |-> {},        \* entries held back by a failed flush
     retried_ids |-> {},       \* entries passed again after a failed flush
     written |-> <<>>,         \* timestamps of successful update_company
     log_entries |-> <<>>,     \* entries passed to create_enrichment_log
     log_table |-> <<>>,       \* entries the enrichment_logs table took
     log_warnings |-> 0,       \* "Enrichment logs table might not exist"
     raised_at |-> <<>>,       \* positions whose step ended in the except
     start_buffer |-> 0,       \* len(results_buffer) when run() was entered
     start_processed |-> 0]    \* processed_count when run() was entered

\* datetime.now(): a clock that advances from one company to the next
Now == (runs - 1) * (MaxCompanies + 1) + idx

total_companies == Len(companies)

\* What run() does with the outcome of fetch_companies (main.py:69-71):
\* an exception leaves run(), a response starts the loop.
AfterFetchSwallow(resp) == "loop"

AfterFetch(resp) == IF resp.raised THEN "raised" ELSE "loop"

\* The try/except around one enricher in _enrich_company (main.py:110-115):
\* merge the result, or log a warning and keep what was merged so far.
EnrichCompanyStepAbort(data, f) ==
    IF f.status = "returned" THEN DictUpdate(data, f.value) ELSE EmptyMap

EnrichCompanyStep(data, f) ==
    IF f.status = "returned" THEN DictUpdate(data, f.value) ELSE data

\* The entry built from a non-empty aggregate (main.py:84-85)
BufferEntry(data, tk, now) ==
    DictUpdate(DictUpdate(data, [Ticker |-> tk]), [last_enriched |-> now])

\* if enriched_data: ... self.results_buffer.append(enriched_data)
\* (main.py:83-86)
AppendAlways(buf, data, tk, now) == Append(buf, BufferEntry(data, tk, now))

AppendIfAny(buf, data, tk, now) ==
    IF Truthy(data) THEN Append(buf, BufferEntry(data, tk, now)) ELSE buf

\* len(self.results_buffer) >= self.config.save_frequency (main.py:89)
SaveDueOffByOne(buf, freq) == Len(buf) > freq

SaveDue(buf, freq) == Len(buf) >= freq

\* _save_buffer (main.py:119-130).  called: batch_update_companies was
\* called; raised: an exception left _save_buffer.
SaveBufferPropagate(buf, failAt) ==
    IF ~Truthy(buf)
    THEN [buffer |-> buf, called |-> FALSE, calls |-> <<>>, ok |-> TRUE,
          raised |-> FALSE]
    ELSE LET b == batch_update_companies(buf, failAt)
         IN  IF b.raised
             THEN [buffer |-> buf, called |-> TRUE, calls |-> b.calls,
                   ok |-> FALSE, raised |-> TRUE]
             ELSE [buffer |-> <<>>, called |-> TRUE, calls |-> b.calls,
                   ok |-> TRUE, raised |-> FALSE]

SaveBufferDropOnFailure(buf, failAt) ==
    IF ~Truthy(buf)
    THEN [buffer |-> buf, called |-> FALSE, calls |-> <<>>, ok |-> TRUE,
          raised |-> FALSE]
    ELSE LET b == batch_update_companies(buf, failAt)
         IN  [buffer |-> <<>>, called |-> TRUE, calls |-> b.calls,
              ok |-> ~b.raised, raised |-> FALSE]

SaveBufferNoClear(buf, failAt) ==
    IF ~Truthy(buf)
    THEN [buffer |-> buf, called |-> FALSE, calls |-> <<>>, ok |-> TRUE,
          raised |-> FALSE]
    ELSE LET b == batch_update_companies(buf, failAt)
         IN  [buffer |-> buf, called |-> TRUE, calls |-> b.calls,
              ok |-> ~b.raised, raised |-> FALSE]

SaveBuffer(buf, failAt) ==
    IF ~Truthy(buf)
    THEN [buffer |-> buf, called |-> FALSE, calls |-> <<>>, ok |-> TRUE,
          raised |-> FALSE]
    ELSE LET b == batch_update_companies(buf, failAt)
         IN  IF b.raised
             THEN [buffer |-> buf, called |-> TRUE, calls |-> b.calls,
                   ok |-> FALSE, raised |-> FALSE]
             ELSE [buffer |-> <<>>, called |-> TRUE, calls |-> b.calls,
                   ok |-> TRUE, raised |-> FALSE]

\* No _save_buffer call
NoSave(buf) ==
    [buffer |-> buf, called |-> FALSE, calls |-> <<>>, ok |-> TRUE,
     raised |-> FALSE]

\* The timestamps of the updates the store took, in call order
RECURSIVE WrittenIds(_)
WrittenIds(calls) ==
    IF calls = <<>> THEN <<>>
    ELSE (IF Head(calls).ok THEN <<Head(calls).updates["last_enriched"]>>
          ELSE <<>>) \o WrittenIds(Tail(calls))

\* History of a _save_buffer call
ObsFlush(o, buf, sb, now) ==
    IF sb.called
    THEN [o EXCEPT !.flushes = @ + 1,
                   !.failed_flushes = IF sb.ok THEN @ ELSE @ + 1,
                   !.errors_logged = IF sb.ok THEN @ ELSE @ + 1,
                   !.step_flushes = @ + 1,
                   !.last_flush = [batch |-> buf, calls |-> sb.calls,
                                   ok |-> sb.ok, at |-> now],
                   !.retried_ids = @ \cup (Ids(buf) \cap o.failed_ids),
                   !.failed_ids = IF sb.ok THEN {} ELSE Ids(buf),
                   !.written = @ \o WrittenIds(sb.calls)]
    ELSE o

\* What the insert into enrichment_logs does: it succeeds or raises
InsertOutcomes == {"ok", "APIError", "ConnectionError"}

\* create_enrichment_log(log_entry) (database.py:47-53): the insert is
\* tried; whatever it raises is swallowed with a warning.
create_enrichment_logPropagate(table, log_entry, ins) ==
    IF ins = "ok"
    THEN [table |-> Append(table, log_entry), warnings |-> 0, raised |-> "None"]
    ELSE [table |-> table, warnings |-> 0, raised |-> ins]

create_enrichment_log(table, log_entry, ins) ==
    IF ins = "ok"
    THEN [table |-> Append(table, log_entry), warnings |-> 0, raised |-> "None"]
    ELSE [table |-> table, warnings |-> 1, raised |-> "None"]

\* The log_entry built by _log_enrichment_error (main.py:132-139)
LogEntry(tk, error, now) ==
    [ticker |-> tk, error |-> error, timestamp |-> now, enricher |-> "pipeline"]

\* len(self.results_buffer) >= self.config.save_frequency raises TypeError
\* when save_frequency is None (main.py:89)
SaveDueRaises(freq) == freq = Null

\* self.processed_count += 1 is the last statement of the try block: it is
\* skipped when the block raised (main.py:92-96)
CountProcessedAlways(count, raised) == count + 1

CountProcessed(count, raised) == IF raised THEN count ELSE count + 1

\* EnrichmentPipeline.__init__ (main.py:49-54), with a Config and a store
Init ==
    /\ environ = GoodEnviron
    /\ config = DefaultConfig
    /\ save_frequency \in 1 .. MaxSaveFrequency
    /\ companies_bbt \in Tables
    /\ results_buffer = <<>>
    /\ processed_count = 0
    /\ pc = "ready"
    /\ companies = <<>>
    /\ idx = 0
    /\ ticker = ""
    /\ enriched_data = EmptyMap
    /\ eidx = 0
    /\ w = IdleFrame
    /\ summary = NoSummary
    /\ runs = 0
    /\ obs = NewObs

\* run(limit) enters: fetch_companies(limit) (main.py:64-73)
EnterRun ==
    /\ \E limit \in Limits, fetch_ok \in BOOLEAN :
          LET resp == IF fetch_ok
                      THEN [raised |-> FALSE,
                            data |-> fetch_companies(companies_bbt, limit)]
                      ELSE [raised |-> TRUE, data |-> <<>>]
          IN  /\ pc' = AfterFetch(resp)
              /\ companies' = resp.data
              /\ obs' = [NewObs EXCEPT !.fetch_failed = resp.raised,
                                       !.start_buffer = Len(results_buffer),
                                       !.start_processed = processed_count]
    /\ runs' = runs + 1
    /\ idx' = 1
    /\ ticker' = ""
    /\ enriched_data' = EmptyMap
    /\ eidx' = 0
    /\ w' = IdleFrame
    /\ summary' = NoSummary
    /\ UNCHANGED <<environ, config, save_frequency, companies_bbt, results_buffer,
                   processed_count>>

\* main(): the pipeline is constructed and run() is called (main.py:154-157)
Run ==
    /\ pc = "ready"
    /\ EnterRun

\* run() is called again on the same instance, after it returned or raised
Rerun ==
    /\ pc \in {"done", "raised"}
    /\ runs < MaxRuns
    /\ EnterRun

\* The for loop takes the next company and _enrich_company starts
\* (main.py:75-81, 106-110)
BeginCompany ==
    /\ pc = "loop"
    /\ idx <= Len(companies)
    /\ ticker' = IF "Ticker" \in DOMAIN companies[idx]
                 THEN companies[idx]["Ticker"] ELSE "Unknown"
    /\ enriched_data' = EmptyMap
    /\ eidx' = IF Len(ENABLED_ENRICHERS) >= 1 THEN 1 ELSE 0
    /\ w' = IF Len(ENABLED_ENRICHERS) >= 1
            THEN NewFrame(EnrichMaxRetries, EnrichDelay) ELSE IdleFrame
    /\ pc' = IF Len(ENABLED_ENRICHERS) >= 1 THEN "enrich" ELSE "append"
    /\ obs' = [obs EXCEPT !.visited = Append(@, idx), !.outcomes = <<>>,
                          !.enrich_calls = 0, !.step_flushes = 0]
    /\ UNCHANGED <<environ, config, save_frequency, companies_bbt, results_buffer,
                   processed_count, companies, idx, summary, runs>>

\* One attempt of the wrapped enrich() of the current enricher.  When the
\* attempt ends the call, _enrich_company merges the result or logs the
\* failure, and goes to the next enricher or returns the aggregate
\* (main.py:110-117)
EnrichAttempt ==
    /\ pc = "enrich"
    /\ w.status = "running"
    /\ \E prov \in ProviderOutcomes :
          LET out == EnrichBody(companies[idx], prov)
              f == [WrapperStep(w, out) EXCEPT
                       !.provider_calls = @ + out.provider_calls]
          IN  IF f.status = "running"
              THEN /\ w' = f
                   /\ UNCHANGED <<pc, enriched_data, eidx, obs>>
              ELSE /\ enriched_data' = EnrichCompanyStep(enriched_data, f)
                   /\ obs' = [obs EXCEPT
                                 !.enrich_calls = @ + 1,
                                 !.outcomes = Append(@, [status |-> f.status,
                                                         value |-> f.value]),
                                 !.first_raise =
                                     IF @ = 0 /\ f.status = "raised"
                                     THEN idx ELSE @]
                   /\ IF eidx < Len(ENABLED_ENRICHERS)
                      THEN /\ eidx' = eidx + 1
                           /\ w' = NewFrame(EnrichMaxRetries, EnrichDelay)
                           /\ pc' = pc
                      ELSE /\ eidx' = 0
                           /\ w' = IdleFrame
                           /\ pc' = "append"
    /\ UNCHANGED <<environ, config, save_frequency, companies_bbt, results_buffer,
                   processed_count, companies, idx, ticker, summary, runs>>

\* if enriched_data: attach Ticker and last_enriched, append (main.py:83-86)
AppendResult ==
    /\ pc = "append"
    /\ results_buffer' = AppendIfAny(results_buffer, enriched_data, ticker, Now)
    /\ obs' = [obs EXCEPT !.appended =
                  IF results_buffer' # results_buffer THEN Append(@, Now)
                  ELSE @]
    /\ enriched_data' = IF Truthy(enriched_data)
                        THEN BufferEntry(enriched_data, ticker, Now)
                        ELSE enriched_data
    /\ pc' = "save"
    /\ UNCHANGED <<environ, config, save_frequency, companies_bbt, processed_count, companies,
                   idx, ticker, eidx, w, summary, runs>>

\* for idx, company in enumerate(companies): the position after position i
\* (main.py:75)
NextCompanySkip(i) == i + 2

NextCompany(i) == i + 1

\* Save periodically, count the company; an exception of the try block is
\* caught, logged to the error log, and the loop goes on (main.py:88-96)
PeriodicSave ==
    /\ pc = "save"
    /\ \E failAt \in 0 .. Len(results_buffer), ins \in InsertOutcomes :
          LET cmp == SaveDueRaises(save_frequency)
              due == ~cmp /\ SaveDue(results_buffer, save_frequency)
              sb == IF due THEN SaveBuffer(results_buffer, failAt)
                    ELSE NoSave(results_buffer)
              o == ObsFlush(obs, results_buffer, sb, Now)
              raised == cmp \/ sb.raised
              log_entry == LogEntry(ticker, "TypeError", Now)
              lg == create_enrichment_log(obs.log_table, log_entry, ins)
          IN  /\ sb.called \/ failAt = 0
              /\ raised \/ ins = "ok"
              /\ results_buffer' = sb.buffer
              /\ processed_count' = CountProcessed(processed_count, raised)
              /\ obs' = IF raised
                        THEN [o EXCEPT !.log_entries = Append(@, log_entry),
                                       !.log_table = lg.table,
                                       !.log_warnings = @ + lg.warnings,
                                       !.raised_at = Append(@, idx)]
                        ELSE o
              /\ pc' = IF raised /\ lg.raised # "None" THEN "raised" ELSE "loop"
    /\ idx' = NextCompany(idx)
    /\ UNCHANGED <<environ, config, save_frequency, companies_bbt, companies, ticker,
                   enriched_data, eidx, w, summary, runs>>

\* After the loop: save any remaining results (main.py:98-100)
FinalSave ==
    /\ pc = "loop"
    /\ idx > Len(companies)
    /\ \E failAt \in 0 .. Len(results_buffer) :
          LET sb == IF Truthy(results_buffer)
                    THEN SaveBuffer(results_buffer, failAt)
                    ELSE NoSave(results_buffer)
          IN  /\ sb.called \/ failAt = 0
              /\ results_buffer' = sb.buffer
              /\ obs' = ObsFlush([obs EXCEPT !.step_flushes = 0],
                                 results_buffer, sb, Now)
              /\ pc' = IF sb.raised THEN "raised" ELSE "summary"
    /\ UNCHANGED <<environ, config, save_frequency, companies_bbt, processed_count, companies,
                   idx, ticker, enriched_data, eidx, w, summary, runs>>

\* Log summary; run() returns (main.py:102-104)
LogSummary ==
    /\ pc = "summary"
    /\ summary' = [processed |-> processed_count, total |-> total_companies]
    /\ pc' = "done"
    /\ UNCHANGED <<environ, config, save_frequency, companies_bbt, results_buffer,
                   processed_count, companies, idx, ticker, enriched_data,
                   eidx, w, runs, obs>>

Next ==
    \/ Run
    \/ BeginCompany
    \/ EnrichAttempt
    \/ AppendResult
    \/ PeriodicSave
    \/ FinalSave
    \/ LogSummary

\* The program: main() constructs a pipeline and calls run() once.
Spec == Init /\ [][Next]_vars

\* Config is a plain dataclass: save_frequency is whatever the caller
\* passed, a positive number or, here, None (config.py:13-19)
AnyConfigInit ==
    /\ environ = GoodEnviron
    /\ config = DefaultConfig
    /\ save_frequency \in (1 .. MaxSaveFrequency) \cup {Null}
    /\ companies_bbt \in Tables
    /\ results_buffer = <<>>
    /\ processed_count = 0
    /\ pc = "ready"
    /\ companies = <<>>
    /\ idx = 0
    /\ ticker = ""
    /\ enriched_data = EmptyMap
    /\ eidx = 0
    /\ w = IdleFrame
    /\ summary = NoSummary
    /\ runs = 0
    /\ obs = NewObs

AnyConfigSpec == AnyConfigInit /\ [][Next]_vars

\* run() is a sequential program: once called it keeps executing.
RunStep ==
    \/ BeginCompany
    \/ EnrichAttempt
    \/ AppendResult
    \/ PeriodicSave
    \/ FinalSave
    \/ LogSummary

FairSpec == Spec /\ WF_vars(RunStep)

\* The pipeline instance is reused: run() is called up to MaxRuns times.
RerunNext ==
    \/ Run
    \/ Rerun
    \/ BeginCompany
    \/ EnrichAttempt
    \/ AppendResult
    \/ PeriodicSave
    \/ FinalSave
    \/ LogSummary

RerunSpec == Init /\ [][RerunNext]_vars

----------------------------------------------------------------------------
(* retry_on_failure around an arbitrary fallible operation                 *)

\* What the wrapped operation does when it is called
FuncOutcomes ==
    {[kind |-> "raise", value |-> EmptyMap, exc |-> e] : e \in Exceptions}
    \cup {[kind |-> "return", value |-> CleanNone(p), exc |-> "None"] :
             p \in Payloads}

\* wrapper() is called on a function decorated with
\* retry_on_failure(max_retries=R, delay=D)
RetryInit ==
    /\ environ = GoodEnviron
    /\ config = DefaultConfig
    /\ save_frequency = 1
    /\ companies_bbt = <<>>
    /\ results_buffer = <<>>
    /\ processed_count = 0
    /\ pc = "wrapper"
    /\ companies = <<>>
    /\ idx = 0
    /\ ticker = ""
    /\ enriched_data = EmptyMap
    /\ eidx = 0
    /\ \E R \in 0 .. MaxRetries, D \in 1 .. MaxDelay : w = NewFrame(R, D)
    /\ summary = NoSummary
    /\ runs = 0
    /\ obs = NewObs

\* One iteration of the loop of wrapper(): func() is called
WrapperAttempt ==
    /\ pc = "wrapper"
    /\ w.status = "running"
    /\ \E out \in FuncOutcomes :
          w' = [WrapperStep(w, out) EXCEPT !.trace = Append(@, out)]
    /\ UNCHANGED <<environ, config, save_frequency, companies_bbt, results_buffer,
                   processed_count, pc, companies, idx, ticker, enriched_data,
                   eidx, summary, runs, obs>>

RetryNext == WrapperAttempt

RetrySpec == RetryInit /\ [][RetryNext]_vars

----------------------------------------------------------------------------
(* One enrich() call of each enricher class, through its retry wrapper     *)

EnrichRowKinds == RowKinds \cup {"null"}

\* enricher.enrich(company) is called: enricher is an instance of
\* EnricherClasses[eidx], company is companies[1]
EnrichInit ==
    /\ environ = GoodEnviron
    /\ config \in Configs
    /\ save_frequency = 1
    /\ companies_bbt = <<>>
    /\ results_buffer = <<>>
    /\ processed_count = 0
    /\ pc = "enrich_call"
    /\ \E kind \in EnrichRowKinds : companies = <<CompanyRow(1, kind)>>
    /\ idx = 1
    /\ ticker = ""
    /\ enriched_data = EmptyMap
    /\ eidx \in 1 .. Len(EnricherClasses)
    /\ w = NewFrame(EnrichPolicy(config).max_retries,
                    EnrichPolicy(config).delay)
    /\ summary = NoSummary
    /\ runs = 0
    /\ obs = NewObs

\* One iteration of the wrapper around enrich(): the body runs once
EnrichCall ==
    /\ pc = "enrich_call"
    /\ w.status = "running"
    /\ \E prov \in OutcomesOf(EnricherClasses[eidx]) :
          LET out == EnrichOf(EnricherClasses[eidx], companies[idx], prov)
          IN  w' = [WrapperStep(w, out) EXCEPT
                       !.provider_calls = @ + out.provider_calls,
                       !.upserts = @ + out.upserts,
                       !.trace = Append(@, [kind |-> out.kind,
                                            value |-> out.value,
                                            exc |-> out.exc,
                                            answer |-> prov])]
    /\ UNCHANGED <<environ, config, save_frequency, companies_bbt, results_buffer,
                   processed_count, pc, companies, idx, ticker, enriched_data,
                   eidx, summary, runs, obs>>

EnrichNext == EnrichCall

EnrichSpec == EnrichInit /\ [][EnrichNext]_vars

----------------------------------------------------------------------------
(* One enrich() call, statement by statement: pc is the place the call has *)
(* reached inside wrapper() and the enrich body                            *)

\* if not self.validate_input(company): return {}  (yahoo_finance.py:21-22
\* and the same two lines of every other enrich method)
AfterValidateNoSkip(company) == "calling-provider"

AfterValidate(company) ==
    IF validate_input(company) THEN "calling-provider" ELSE "skipped"

\* Where wrapper() is after an iteration: it returned, it sleeps before the
\* next iteration, or it left the loop and raised (base.py:22-31)
AfterAttempt(f) ==
    IF f.status = "returned" THEN "success"
    ELSE IF f.status = "raised" THEN "failed"
    ELSE "retry"

\* enricher.enrich(company) is about to be called (main.py:112)
InvokeInit ==
    /\ environ = GoodEnviron
    /\ config = DefaultConfig
    /\ save_frequency = 1
    /\ companies_bbt = <<>>
    /\ results_buffer = <<>>
    /\ processed_count = 0
    /\ pc = "pending"
    /\ \E kind \in EnrichRowKinds : companies = <<CompanyRow(1, kind)>>
    /\ idx = 1
    /\ ticker = ""
    /\ enriched_data = EmptyMap
    /\ eidx \in 1 .. Len(EnricherClasses)
    /\ w = NewFrame(EnrichMaxRetries, EnrichDelay)
    /\ summary = NoSummary
    /\ runs = 0
    /\ obs = NewObs

InvokeUnchanged ==
    UNCHANGED <<environ, config, save_frequency, companies_bbt, results_buffer,
                processed_count, companies, idx, ticker, enriched_data, eidx,
                summary, runs, obs>>

\* wrapper() is entered and the first iteration calls func (base.py:17-22)
InvokeEnter ==
    /\ pc = "pending"
    /\ pc' = "validating"
    /\ w' = w
    /\ InvokeUnchanged

\* The first statement of the enrich body
InvokeValidate ==
    /\ pc = "validating"
    /\ pc' = AfterValidate(companies[idx])
    /\ w' = w
    /\ InvokeUnchanged

\* return {} of an ineligible company; wrapper() returns it (base.py:22)
InvokeSkip ==
    /\ pc = "skipped"
    /\ \E prov \in OutcomesOf(EnricherClasses[eidx]) :
          LET out == EnrichOf(EnricherClasses[eidx], companies[idx], prov)
              f == [WrapperStep(w, out) EXCEPT
                       !.provider_calls = @ + out.provider_calls,
                       !.upserts = @ + out.upserts]
          IN  /\ w' = f
              /\ pc' = AfterAttempt(f)
    /\ InvokeUnchanged

\* The try block of the enrich body: the provider is called and answers,
\* the body returns or re-raises, and wrapper() handles it (base.py:22-31)
InvokeProvider ==
    /\ pc = "calling-provider"
    /\ \E prov \in OutcomesOf(EnricherClasses[eidx]) :
          LET out == EnrichOf(EnricherClasses[eidx], companies[idx], prov)
              f == [WrapperStep(w, out) EXCEPT
                       !.provider_calls = @ + out.provider_calls,
                       !.upserts = @ + out.upserts]
          IN  /\ w' = f
              /\ pc' = AfterAttempt(f)
    /\ InvokeUnchanged

\* time.sleep returns and the next iteration calls func again
\* (base.py:27, 20-22)
InvokeRetry ==
    /\ pc = "retry"
    /\ pc' = "validating"
    /\ w' = w
    /\ InvokeUnchanged

InvokeNext ==
    \/ InvokeEnter
    \/ InvokeValidate
    \/ InvokeSkip
    \/ InvokeProvider
    \/ InvokeRetry

\* The call is sequential code: it goes on until it returns or raises
InvokeSpec == InvokeInit /\ [][InvokeNext]_vars /\ WF_vars(InvokeNext)

----------------------------------------------------------------------------
(* One batch_update_companies() call on an arbitrary sequence of updates   *)

\* An update: a mapping with or without a Ticker key
UpdateKinds ==
    {[Ticker |-> "AAPL", x |-> 1], [Ticker |-> "MSFT", x |-> 1], [x |-> 1]}

BatchInputs == UNION {[1 .. n -> UpdateKinds] : n \in 0 .. MaxBatch}

\* batch_update_companies(updates) is called with updates = results_buffer;
\* idx is the position of the update that the store rejects (0: none)
BatchInit ==
    /\ environ = GoodEnviron
    /\ config = DefaultConfig
    /\ save_frequency = 1
    /\ companies_bbt = <<>>
    /\ results_buffer \in BatchInputs
    /\ processed_count = 0
    /\ pc = "batch"
    /\ companies = <<>>
    /\ idx \in 0 .. Len(results_buffer)
    /\ ticker = ""
    /\ enriched_data = EmptyMap
    /\ eidx = 0
    /\ w = IdleFrame
    /\ summary = NoSummary
    /\ runs = 0
    /\ obs = NewObs

\* The call runs to its return or to the exception that leaves it
BatchCall ==
    /\ pc = "batch"
    /\ LET b == batch_update_companies(results_buffer, idx)
       IN  obs' = [obs EXCEPT !.flushes = 1,
                              !.failed_flushes = IF b.raised THEN 1 ELSE 0,
                              !.last_flush = [batch |-> results_buffer,
                                              calls |-> b.calls,
                                              ok |-> ~b.raised,
                                              at |-> idx]]
    /\ pc' = "batch_done"
    /\ UNCHANGED <<environ, config, save_frequency, companies_bbt, results_buffer,
                   processed_count, companies, idx, ticker, enriched_data,
                   eidx, w, summary, runs>>

BatchNext == BatchCall

BatchSpec == BatchInit /\ [][BatchNext]_vars

----------------------------------------------------------------------------
(* One fetch_companies() call                                              *)

\* fetch_companies(limit) is called on a store holding companies_bbt; the
\* limit argument is kept in idx
FetchInit ==
    /\ environ = GoodEnviron
    /\ config = DefaultConfig
    /\ save_frequency = 1
    /\ companies_bbt \in Tables
    /\ results_buffer = <<>>
    /\ processed_count = 0
    /\ pc = "fetch"
    /\ companies = <<>>
    /\ idx \in Limits
    /\ ticker = ""
    /\ enriched_data = EmptyMap
    /\ eidx = 0
    /\ w = IdleFrame
    /\ summary = NoSummary
    /\ runs = 0
    /\ obs = NewObs

\* The query is executed: it returns response.data or raises
FetchCall ==
    /\ pc = "fetch"
    /\ \E fetch_ok \in BOOLEAN :
          IF fetch_ok
          THEN /\ companies' = fetch_companies(companies_bbt, idx)
               /\ pc' = "fetched"
               /\ obs' = obs
          ELSE /\ companies' = companies
               /\ pc' = "fetch_raised"
               /\ obs' = [obs EXCEPT !.fetch_failed = TRUE]
    /\ UNCHANGED <<environ, config, save_frequency, companies_bbt, results_buffer,
                   processed_count, idx, ticker, enriched_data, eidx, w,
                   summary, runs>>

FetchNext == FetchCall

FetchSpec == FetchInit /\ [][FetchNext]_vars

----------------------------------------------------------------------------
(* main(): Config(), EnrichmentPipeline(config), run()                     *)

\* main() starts in some environment, nothing is constructed yet
MainInit ==
    /\ environ \in Environs
    /\ config = NoConfig
    /\ save_frequency = Null
    /\ companies_bbt \in Tables
    /\ results_buffer = <<>>
    /\ processed_count = 0
    /\ pc = "main"
    /\ companies = <<>>
    /\ idx = 0
    /\ ticker = ""
    /\ enriched_data = EmptyMap
    /\ eidx = 0
    /\ w = IdleFrame
    /\ summary = NoSummary
    /\ runs = 0
    /\ obs = NewObs

\* config = Config() (main.py:151, config.py:13-32)
ConstructConfig ==
    /\ pc = "main"
    /\ LET c == NewConfig(environ)
       IN  /\ config' = c.config
           /\ save_frequency' = c.save_frequency
           /\ pc' = IF c.raised THEN "main_raised" ELSE "configured"
    /\ UNCHANGED <<environ, companies_bbt, results_buffer, processed_count,
                   companies, idx, ticker, enriched_data, eidx, w, summary,
                   runs, obs>>

\* pipeline = EnrichmentPipeline(config) (main.py:154, 49-54): the
\* DatabaseManager and the enrichers are built from config; building a
\* client may fail
ConstructPipeline ==
    /\ pc = "configured"
    /\ \E clients_ok \in BOOLEAN :
          pc' = IF clients_ok THEN "ready" ELSE "main_raised"
    /\ results_buffer' = <<>>
    /\ processed_count' = 0
    /\ UNCHANGED <<environ, config, save_frequency, companies_bbt, companies,
                   idx, ticker, enriched_data, eidx, w, summary, runs, obs>>

MainNext ==
    \/ ConstructConfig
    \/ ConstructPipeline
    \/ Run
    \/ BeginCompany
    \/ EnrichAttempt
    \/ AppendResult
    \/ PeriodicSave
    \/ FinalSave
    \/ LogSummary

MainSpec == MainInit /\ [][MainNext]_vars

----------------------------------------------------------------------------
(* Claims                                                                  *)

AllPositions == [i \in 1 .. Len(companies) |-> i]

SeqToSet(s) == {s[i] : i \in 1 .. Len(s)}

\* C1: enricher failure isolation.  When _enrich_company returns, every
\* enabled enricher has been called for the company, also after one of
\* them raised, and every field returned by an enricher that succeeded is
\* in the aggregate; after the append these fields are in the entry appended
\* for the company; when run() reaches its summary every fetched company
\* has been visited, and if no flush failed every appended entry was taken
\* by update_company.
C1_EnricherIsolation ==
    /\ pc \in {"append", "save"} =>
          /\ obs.enrich_calls = Len(ENABLED_ENRICHERS)
          /\ Len(obs.outcomes) = Len(ENABLED_ENRICHERS)
          /\ \A e \in 1 .. Len(obs.outcomes) :
                obs.outcomes[e].status = "returned" =>
                   \A k \in DOMAIN obs.outcomes[e].value :
                      k \in DOMAIN enriched_data
    /\ pc = "save" =>
          \A e \in 1 .. Len(obs.outcomes) :
             (obs.outcomes[e].status = "returned"
                 /\ Truthy(obs.outcomes[e].value)) =>
                /\ Len(results_buffer) > 0
                /\ results_buffer[Len(results_buffer)]["last_enriched"] = Now
                /\ \A k \in DOMAIN obs.outcomes[e].value :
                      k \in DOMAIN results_buffer[Len(results_buffer)]
    /\ pc \in {"summary", "done"} =>
          /\ obs.visited = AllPositions
          /\ obs.failed_flushes = 0 =>
                SeqToSet(obs.appended) \subseteq SeqToSet(obs.written)

\* C1 witness: a run of two companies has returned; for the first company
\* an enricher raised, yet the company's entry (from the enricher that
\* succeeded) was written and the second company was visited.
C1_Witness ==
    /\ pc = "done"
    /\ obs.first_raise = 1
    /\ obs.visited = <<1, 2>>
    /\ 1 \in SeqToSet(obs.written)

\* C2: containment of non-fatal failures.  run() raises only when
\* fetch_companies failed; when it reaches its summary it has visited every
\* fetched company exactly once, in order; and once the fetch has succeeded
\* run() eventually reports the summary and returns, whatever the enrichers
\* and the store do.
C2_Containment ==
    /\ [](pc = "raised" => obs.fetch_failed)
    /\ [](pc \in {"summary", "done"} => obs.visited = AllPositions)
    /\ [](Len(obs.visited) <= Len(companies))
    /\ ((pc = "loop") ~> (pc = "done" /\ summary.total = Len(companies)))

\* C2 witness: run() has returned normally from a run of two companies in
\* which an enricher raised and a flush failed.
C2_Witness ==
    /\ pc = "done"
    /\ Len(companies) = 2
    /\ obs.first_raise > 0
    /\ obs.failed_flushes > 0

\* C3: fatal path.  When fetch_companies fails, run() raises, and in that
\* run no company is visited, no enricher is called, nothing is appended to
\* the buffer, batch_update_companies is not called and no error-log entry
\* is written.
C3_FatalFetch ==
    obs.fetch_failed =>
       /\ pc = "raised"
       /\ obs.visited = <<>>
       /\ obs.enrich_calls = 0
       /\ obs.outcomes = <<>>
       /\ w.status = "idle"
       /\ obs.appended = <<>>
       /\ Len(results_buffer) = obs.start_buffer
       /\ obs.flushes = 0
       /\ obs.written = <<>>
       /\ obs.log_entries = <<>>
       /\ processed_count = obs.start_processed

\* C3 witness: the fetch of a second run() failed while the buffer still
\* held entries kept from the first run; run() raised without flushing them.
C3_Witness ==
    /\ pc = "raised"
    /\ obs.fetch_failed
    /\ runs = 2
    /\ Len(results_buffer) > 0

\* The enrichers that returned field X for the current company
Writers(X) ==
    {e \in 1 .. Len(obs.outcomes) :
        obs.outcomes[e].status = "returned"
        /\ X \in DOMAIN obs.outcomes[e].value}

MaxOf(S) == CHOOSE m \in S : \A n \in S : n <= m

\* C4: last-writer-wins merge.  When _enrich_company returns, a field X is
\* in the aggregate exactly if some enricher that succeeded returned it, and
\* its value is the one returned by the latest such enricher in the enabled
\* order.
C4_LastWriterWins ==
    pc = "append" =>
       \A X \in Fields :
          IF Writers(X) = {}
          THEN X \notin DOMAIN enriched_data
          ELSE /\ X \in DOMAIN enriched_data
               /\ enriched_data[X] = obs.outcomes[MaxOf(Writers(X))].value[X]

\* C4 witness: the first enricher returned {x: 2, y: 1}, the second
\* {x: 1}; the aggregate has x from the second and y from the first.
C4_Witness ==
    /\ pc = "append"
    /\ Len(obs.outcomes) = 2
    /\ obs.outcomes[1].status = "returned"
    /\ obs.outcomes[2].status = "returned"
    /\ obs.outcomes[1].value = [x |-> 2, y |-> 1]
    /\ obs.outcomes[2].value = [x |-> 1]
    /\ enriched_data = [x |-> 1, y |-> 1]

\* The step of the for loop that has just finished appended an entry
JustAppended ==
    /\ pc = "loop"
    /\ idx > 1
    /\ obs.appended # <<>>
    /\ obs.appended[Len(obs.appended)] = Now - 1

\* C5 (as claimed): in a run started with an empty buffer, once exactly
\* save_frequency results have been appended exactly one flush has been
\* made and the buffer is empty; with fewer results appended no flush is
\* made before the end of the loop.
C5_FlushThresholdEmpties ==
    (pc = "loop" /\ obs.start_buffer = 0) =>
       /\ Len(obs.appended) < save_frequency => obs.flushes = 0
       /\ Len(obs.appended) = save_frequency =>
             /\ obs.flushes = 1
             /\ results_buffer = <<>>

\* C5 (amended): in a run started with an empty buffer, the step that
\* appends the save_frequency-th result makes exactly one
\* batch_update_companies call, over all the buffered entries; the buffer is
\* empty afterwards if that call succeeded and is left unchanged if it
\* failed; with fewer results appended no flush is made before the end of
\* the loop.
C5_FlushThreshold ==
    (pc = "loop" /\ obs.start_buffer = 0) =>
       /\ Len(obs.appended) < save_frequency =>
             /\ obs.flushes = 0
             /\ Len(results_buffer) = Len(obs.appended)
       /\ (Len(obs.appended) = save_frequency /\ JustAppended) =>
             /\ obs.flushes = 1
             /\ obs.step_flushes = 1
             /\ obs.last_flush.at = Now - 1
             /\ Ids(obs.last_flush.batch) = SeqToSet(obs.appended)
             /\ Len(obs.last_flush.batch) = save_frequency
             /\ IF obs.last_flush.ok
                THEN results_buffer = <<>>
                ELSE results_buffer = obs.last_flush.batch

\* C5 witness: the save_frequency-th result (the second) has just been
\* appended, the one flush it triggered succeeded and the buffer is empty.
C5_Witness ==
    /\ JustAppended
    /\ save_frequency = 2
    /\ Len(obs.appended) = 2
    /\ obs.flushes = 1
    /\ obs.last_flush.ok
    /\ results_buffer = <<>>

\* C6 (as claimed): the buffer never holds more than save_frequency entries.
C6_BufferNeverExceeds == Len(results_buffer) <= save_frequency

\* C6 (amended): as long as no flush has failed (the run started with an
\* empty buffer and none of its flushes failed) the buffer never holds more
\* than save_frequency entries; and a buffer that still holds save_frequency
\* entries or more when the next company is about to be processed is one
\* that the step just finished tried to flush, the flush having failed.
C6_BufferBound ==
    /\ (obs.start_buffer = 0 /\ obs.failed_flushes = 0) =>
          Len(results_buffer) <= save_frequency
    /\ (pc = "loop" /\ idx > 1 /\ Len(results_buffer) >= save_frequency) =>
          /\ obs.step_flushes = 1
          /\ obs.last_flush.at = Now - 1
          /\ ~obs.last_flush.ok
          /\ obs.last_flush.batch = results_buffer

\* C6 witness: the buffer has reached save_frequency (2) entries and is
\* about to be flushed; no flush has failed.
C6_Witness ==
    /\ pc = "save"
    /\ save_frequency = 2
    /\ Len(results_buffer) = 2
    /\ obs.failed_flushes = 0

\* C7 (as claimed): no entry that was in the buffer at a failed flush is
\* passed to batch_update_companies by a later flush of the run.
C7_FailedEntriesDropped == obs.retried_ids = {}

\* C7 (amended): a failed flush is logged and leaves the buffer as it was:
\* the entries stay at the head of the buffer, and every later flush of the
\* run passes them to batch_update_companies again, until one succeeds.
C7_FailedEntriesKept ==
    /\ obs.errors_logged = obs.failed_flushes
    /\ obs.failed_ids \subseteq Ids(results_buffer)
    /\ ~obs.last_flush.ok =>
          /\ obs.failed_ids = Ids(obs.last_flush.batch)
          /\ Len(results_buffer) >= Len(obs.last_flush.batch)
          /\ SubSeq(results_buffer, 1, Len(obs.last_flush.batch))
                = obs.last_flush.batch
    /\ (obs.failed_flushes >= 2
           \/ (obs.failed_flushes = 1 /\ obs.last_flush.ok)) =>
          obs.retried_ids # {}

\* C7 witness: run() has returned; a flush failed, and a later flush passed
\* the same entries again and succeeded.
C7_Witness ==
    /\ pc = "done"
    /\ obs.failed_flushes = 1
    /\ obs.last_flush.ok
    /\ obs.retried_ids # {}
    /\ results_buffer = <<>>

\* C8: end-of-run flush.  When run() reports its summary, whatever remained
\* in the buffer after the loop has been passed to one more flush: a buffer
\* that is not empty then is the batch of a final flush that failed.  When
\* no flush of the run failed, the buffer is empty and update_company has
\* taken every result appended during the run, once, in append order.
C8_FinalFlush ==
    pc \in {"summary", "done"} =>
       /\ results_buffer # <<>> =>
             /\ obs.step_flushes = 1
             /\ obs.last_flush.at = Now
             /\ ~obs.last_flush.ok
             /\ obs.last_flush.batch = results_buffer
       /\ obs.failed_flushes = 0 =>
             /\ results_buffer = <<>>
             /\ obs.start_buffer = 0 => obs.written = obs.appended
       /\ (obs.start_buffer = 0 /\ obs.last_flush.ok) =>
             SeqToSet(obs.appended) \subseteq SeqToSet(obs.written)

\* C8 witness: run() has returned with save_frequency 2 and a single
\* result appended: the only flush was the one after the loop, and it wrote
\* the result.
C8_Witness ==
    /\ pc = "done"
    /\ save_frequency = 2
    /\ Len(obs.appended) = 1
    /\ obs.flushes = 1
    /\ obs.last_flush.at = Now
    /\ obs.written = obs.appended
    /\ results_buffer = <<>>

CeilDiv(n, f) == (n + f - 1) \div f

\* The fields an entry carries besides Ticker and last_enriched
EnricherFields(entry) == (DOMAIN entry) \ {"Ticker", "last_enriched"}

\* C9: end-to-end run on a freshly constructed pipeline.  With N fetched
\* companies that all carry a ticker, no enricher failure, a non-empty
\* aggregate for every company and no failing write, run() makes exactly
\* ceil(N / save_frequency) flushes, update_company takes exactly one record
\* per company, in fetch order, and the summary reports N/N.  Every record
\* passed to update_company carries enricher fields, the Ticker of its
\* company and its last_enriched timestamp; the entry appended for a
\* company carries, for every field, the value of the latest enricher that
\* returned it.
C9_EndToEnd ==
    /\ (/\ pc = "done"
        /\ obs.start_buffer = 0
        /\ obs.start_processed = 0
        /\ \A i \in 1 .. Len(companies) : validate_input(companies[i])
        /\ obs.first_raise = 0
        /\ Len(obs.appended) = Len(companies)
        /\ obs.failed_flushes = 0) =>
          /\ obs.flushes = CeilDiv(Len(companies), save_frequency)
          /\ obs.written = [i \in 1 .. Len(companies) |-> Now - 1 - Len(companies) + i]
          /\ summary = [processed |-> Len(companies),
                        total |-> Len(companies)]
          /\ results_buffer = <<>>
    /\ obs.start_buffer = 0 => \A c \in 1 .. Len(obs.last_flush.calls) :
          LET call == obs.last_flush.calls[c]
              pos == call.updates["last_enriched"]
                        - (runs - 1) * (MaxCompanies + 1)
          IN  /\ call.updates = obs.last_flush.batch[c]
              /\ EnricherFields(call.updates) # {}
              /\ EnricherFields(call.updates) \subseteq Fields
              /\ pos \in 1 .. Len(companies)
              /\ call.ticker = call.updates["Ticker"]
              /\ validate_input(companies[pos]) =>
                    call.ticker = companies[pos]["Ticker"]
    /\ (pc = "save" /\ Truthy(enriched_data)) =>
          /\ results_buffer # <<>>
          /\ results_buffer[Len(results_buffer)] = enriched_data
          /\ enriched_data["Ticker"] = ticker
          /\ enriched_data["last_enriched"] = Now
          /\ \A X \in EnricherFields(enriched_data) :
                /\ Writers(X) # {}
                /\ enriched_data[X] = obs.outcomes[MaxOf(Writers(X))].value[X]
          /\ \A X \in Fields :
                Writers(X) # {} => X \in DOMAIN enriched_data

\* C9 witness: two companies with tickers, save_frequency 2, the enrichers
\* returned {x: 1} for both: one flush of two records {x: 1, Ticker,
\* last_enriched}, in fetch order, and a summary of 2/2.
C9_Witness ==
    /\ pc = "done"
    /\ save_frequency = 2
    /\ Len(companies) = 2
    /\ obs.first_raise = 0
    /\ obs.flushes = 1
    /\ obs.last_flush.ok
    /\ Len(obs.last_flush.calls) = 2
    /\ obs.last_flush.calls[1].updates =
          [x |-> 1, Ticker |-> "AAPL", last_enriched |-> 1]
    /\ obs.last_flush.calls[2].updates =
          [x |-> 1, Ticker |-> "MSFT", last_enriched |-> 2]
    /\ obs.written = <<1, 2>>
    /\ summary = [processed |-> 2, total |-> 2]

\* C10: retry wrapper attempts.  For every max_retries R >= 0 the wrapper
\* calls the wrapped function at most R + 1 times; every call before the
\* last one raised; a call that returns ends the wrapper at once with that
\* value; after a raising call that is not the (R+1)-th the wrapper goes on
\* whatever the exception was (one warning and one sleep per failure, none
\* depending on the exception type); the wrapper raises only after R + 1
\* raising calls, and what it raises is the exception of the last call.
C10_RetryAttempts ==
    pc = "wrapper" =>
       LET R == w.max_retries
           n == Len(w.trace)
       IN  /\ n <= R + 1
           /\ w.attempt <= R + 1
           /\ \A i \in 1 .. (n - 1) : w.trace[i].kind = "raise"
           /\ w.status = "running" =>
                 /\ n <= R
                 /\ w.attempt = n
                 /\ \A i \in 1 .. n : w.trace[i].kind = "raise"
                 /\ w.warnings = n
                 /\ Len(w.sleeps) = n
           /\ w.status = "returned" =>
                 /\ n >= 1
                 /\ w.trace[n].kind = "return"
                 /\ w.value = w.trace[n].value
                 /\ w.raised = "None"
                 /\ w.warnings = n - 1
           /\ w.status = "raised" =>
                 /\ n = R + 1
                 /\ w.trace[n].kind = "raise"
                 /\ w.raised = w.trace[n].exc
                 /\ w.warnings = R
                 /\ w.errors = 1

\* C10 witness: with R = 2 the wrapper raised after three calls that raised
\* exceptions of two different types, and what it raised is the third.
C10_Witness ==
    /\ pc = "wrapper"
    /\ w.max_retries = 2
    /\ w.status = "raised"
    /\ Len(w.trace) = 3
    /\ w.trace[1].exc = "ValueError"
    /\ w.trace[2].exc = "ConnectionError"
    /\ w.trace[3].exc = "ValueError"
    /\ w.raised = "ValueError"

\* The number of raising calls in a trace of func() calls
RECURSIVE Failures(_)
Failures(tr) ==
    IF tr = <<>> THEN 0
    ELSE (IF Head(tr).kind = "raise" THEN 1 ELSE 0) + Failures(Tail(tr))

\* C11: retry wrapper events.  For every R >= 0: when the wrapper has
\* returned after k failed calls (k <= R), it returns the value of the
\* succeeding call and has logged exactly k warnings and no error; when it
\* has raised, R + 1 calls failed and it has logged exactly R warnings and
\* exactly one error.  While it runs, one warning per failed call, no error.
C11_RetryEvents ==
    pc = "wrapper" =>
       LET R == w.max_retries
           k == Failures(w.trace)
       IN  /\ w.status = "returned" =>
                 /\ k <= R
                 /\ k = Len(w.trace) - 1
                 /\ w.value = w.trace[Len(w.trace)].value
                 /\ w.warnings = k
                 /\ w.errors = 0
           /\ w.status = "raised" =>
                 /\ k = R + 1
                 /\ w.warnings = R
                 /\ w.errors = 1
           /\ w.status = "running" =>
                 /\ w.warnings = k
                 /\ w.errors = 0

\* C11 witness: R = 3, two failed calls and then a success: two warnings,
\* no error, the value {x: 1} returned.
C11_Witness ==
    /\ pc = "wrapper"
    /\ w.max_retries = 3
    /\ w.status = "returned"
    /\ Failures(w.trace) = 2
    /\ w.warnings = 2
    /\ w.errors = 0
    /\ w.value = [x |-> 1]

\* A company record that lacks a ticker, or whose ticker is empty or null
LacksTicker(company) ==
    \/ "Ticker" \notin DOMAIN company
    \/ company["Ticker"] = ""
    \/ company["Ticker"] = NullTicker

\* C12: ineligible input.  For every enricher class and every company
\* record without a Ticker key, or whose ticker is empty or null, enrich
\* ends at its first attempt: it returns {}, raises nothing, is not retried
\* (no warning, no sleep), calls its provider zero times and writes nothing.
C12_IneligibleInput ==
    (pc = "enrich_call" /\ LacksTicker(companies[idx])) =>
       /\ w.status \in {"running", "returned"}
       /\ w.status = "running" => w.trace = <<>>
       /\ w.status = "returned" =>
             /\ Len(w.trace) = 1
             /\ w.value = EmptyMap
             /\ w.raised = "None"
             /\ w.warnings = 0
             /\ w.errors = 0
             /\ w.sleeps = <<>>
       /\ w.provider_calls = 0
       /\ w.upserts = 0

\* C12 witness: the SEC enricher was called with a record whose ticker is
\* empty and has returned {} after one attempt.
C12_Witness ==
    /\ pc = "enrich_call"
    /\ EnricherClasses[eidx] = "SECFilingsEnricher"
    /\ companies[idx] = [Ticker |-> ""]
    /\ w.status = "returned"
    /\ Len(w.trace) = 1
    /\ w.value = EmptyMap
    /\ w.provider_calls = 0

\* The updates of a sequence that carry a Ticker key, in sequence order
HasTicker(u) == "Ticker" \in DOMAIN u

TickerUpdates(updates) == SelectSeq(updates, HasTicker)

\* The update_company calls of the batch_update_companies call just made
BatchCalls == obs.last_flush.calls

LaterTickerUpdates ==
    {i \in (idx + 1) .. Len(results_buffer) : HasTicker(results_buffer[i])}

LogCallMade == Len(obs'.log_entries) = Len(obs.log_entries) + 1

\* C15: the error-log append is fire-and-forget.  Whatever the insert into
\* enrichment_logs does, create_enrichment_log returns: no exception leaves
\* it (run() goes on with the loop), a failed insert leaves the table as it
\* was and gives one warning, a successful one adds the entry, and neither
\* the results buffer nor the processed count is changed.
C15_LogFireAndForget ==
    [][LogCallMade =>
          /\ pc' = "loop"
          /\ results_buffer' = results_buffer
          /\ processed_count' = processed_count
          /\ \/ /\ obs'.log_table =
                      Append(obs.log_table,
                             obs'.log_entries[Len(obs'.log_entries)])
                /\ obs'.log_warnings = obs.log_warnings
             \/ /\ obs'.log_table = obs.log_table
                /\ obs'.log_warnings = obs.log_warnings + 1]_vars

\* C15 witness: one create_enrichment_log call was made, its insert failed:
\* one warning, nothing in the table, the buffer still holds its entry and
\* run() is back in its loop.
C15_Witness ==
    /\ pc = "loop"
    /\ Len(obs.log_entries) = 1
    /\ obs.log_table = <<>>
    /\ obs.log_warnings = 1
    /\ Len(results_buffer) = 1
    /\ processed_count = 0

\* company.get('Ticker', 'Unknown')
TickerOf(company) ==
    IF "Ticker" \in DOMAIN company THEN company["Ticker"] ELSE "Unknown"

\* C16: per-company containment.  Every company step that raised an error
\* no inner layer caught ended in the per-company handler: exactly one
\* enrichment-error entry was passed to the error log for it, carrying that
\* company's ticker and the source 'pipeline'; the processed count was not
\* incremented for it; and the loop went on: run() raises only when the
\* fetch failed, and at the summary every fetched company has been visited.
C16_PerCompanyContainment ==
    /\ Len(obs.log_entries) = Len(obs.raised_at)
    /\ \A k \in 1 .. Len(obs.raised_at) :
          /\ obs.raised_at[k] \in 1 .. Len(companies)
          /\ obs.log_entries[k].ticker = TickerOf(companies[obs.raised_at[k]])
          /\ obs.log_entries[k].enricher = "pipeline"
          /\ \A l \in 1 .. (k - 1) : obs.raised_at[l] < obs.raised_at[k]
    /\ SaveDueRaises(save_frequency) =>
          obs.raised_at = [i \in 1 .. Len(obs.raised_at) |-> i]
    /\ (pc \notin {"ready", "raised"}) =>
          /\ processed_count =
                obs.start_processed + (idx - 1) - Len(obs.raised_at)
          /\ SaveDueRaises(save_frequency) =>
                Len(obs.raised_at) =
                   IF pc \in {"enrich", "append", "save"} THEN idx - 1
                   ELSE Min(idx - 1, Len(companies))
    /\ pc = "raised" => obs.fetch_failed
    /\ pc \in {"summary", "done"} => obs.visited = AllPositions

\* C16 witness: save_frequency is None and two companies were fetched: both
\* steps raised, two entries were passed to the error log (AAPL, then a
\* company without a Ticker key logged as 'Unknown'), nothing was counted as
\* processed and run() returned.
C16_Witness ==
    /\ pc = "done"
    /\ SaveDueRaises(save_frequency)
    /\ Len(companies) = 2
    /\ obs.raised_at = <<1, 2>>
    /\ Len(obs.log_entries) = 2
    /\ obs.log_entries[1].ticker = "AAPL"
    /\ obs.log_entries[2].ticker = "Unknown"
    /\ summary = [processed |-> 0, total |-> 2]

\* Aggregates in which an enricher result brought its own Ticker field
AggregatesWithTicker ==
    {[x |-> 1, Ticker |-> "ZZZ"], [Ticker |-> "ZZZ", y |-> 2],
     [x |-> 1, Ticker |-> "ZZZ", last_enriched |-> 0]}

\* The position, in the fetched rows, of the company an entry was made for
PositionOf(entry) == entry["last_enriched"] - (runs - 1) * (MaxCompanies + 1)

\* C17: buffer entries.  The aggregate of a company is appended to the
\* results buffer if and only if it is non-empty (some enricher returned a
\* non-empty result).  Every entry of the buffer made in this run carries a
\* last_enriched timestamp and the Ticker of the company it was made for,
\* which is a real ticker, never the 'Unknown' default; and the Ticker the
\* orchestrator attaches replaces one that came with an enricher result.
C17_BufferEntries ==
    /\ pc = "save" =>
          LET nonempty == \E k \in 1 .. Len(obs.outcomes) :
                             /\ obs.outcomes[k].status = "returned"
                             /\ Truthy(obs.outcomes[k].value)
              appended == /\ obs.appended # <<>>
                          /\ obs.appended[Len(obs.appended)] = Now
                          /\ results_buffer # <<>>
                          /\ results_buffer[Len(results_buffer)]
                                ["last_enriched"] = Now
          IN  /\ nonempty <=> appended
              /\ nonempty <=> Truthy(enriched_data)
    /\ \A k \in 1 .. Len(obs.appended) :
          \A l \in 1 .. (k - 1) : obs.appended[l] < obs.appended[k]
    /\ Len(results_buffer) <= obs.start_buffer + Len(obs.appended)
    /\ \A b \in 1 .. Len(results_buffer) :
          LET entry == results_buffer[b]
          IN  /\ {"Ticker", "last_enriched"} \subseteq DOMAIN entry
              /\ EnricherFields(entry) # {}
              /\ obs.start_buffer = 0 =>
                    /\ PositionOf(entry) \in 1 .. Len(companies)
                    /\ validate_input(companies[PositionOf(entry)])
                    /\ entry["Ticker"] = companies[PositionOf(entry)]["Ticker"]
                    /\ entry["Ticker"] # "Unknown"
    /\ \A data \in AggregatesWithTicker, i \in 1 .. MaxCompanies :
          LET entry == BufferEntry(data, TickerNames[i], i)
          IN  /\ entry["Ticker"] = TickerNames[i]
              /\ entry["last_enriched"] = i
              /\ \A X \in (DOMAIN data) \ {"Ticker", "last_enriched"} :
                    entry[X] = data[X]

\* C17 witness: of two companies the first has no ticker and got an empty
\* aggregate, the second got {x: 1}: only the second is in the buffer, with
\* its Ticker and timestamp.
C17_Witness ==
    /\ pc = "save"
    /\ idx = 2
    /\ ~validate_input(companies[1])
    /\ obs.appended = <<2>>
    /\ results_buffer = <<[x |-> 1, Ticker |-> "MSFT", last_enriched |-> 2]>>

\* C18: no nulls from enrichers.  For every enricher class and every
\* company, the mapping a successful enrich returns has no entry whose
\* value is None.
C18_NoNullsFromEnrichers ==
    (pc = "enrich_call" /\ w.status = "returned") =>
       \A k \in DOMAIN w.value : w.value[k] # Null

\* C18, what the code guarantees: every class other than SECFilingsEnricher
\* returns a mapping without None values.
C18_NoNullsExceptSEC ==
    (/\ pc = "enrich_call"
     /\ w.status = "returned"
     /\ EnricherClasses[eidx] # "SECFilingsEnricher") =>
       \A k \in DOMAIN w.value : w.value[k] # Null

\* C18 witness: the SEC enricher found a company with one filing that is
\* not a 10-K and returned sec_latest_10k with the value None.
C18_Witness ==
    /\ pc = "enrich_call"
    /\ EnricherClasses[eidx] = "SECFilingsEnricher"
    /\ w.status = "returned"
    /\ w.value = [sec_filings_count |-> 1, sec_latest_10k |-> Null]

\* C19 as stated: enrichers never touch storage; an enrich call of any
\* enricher class performs no write to the persisted store.
C19_EnrichersNeverWrite ==
    pc = "enrich_call" => w.upserts = 0

\* C19, amended: an enrich call of every class other than SECFilingsEnricher
\* performs no write to the persisted store.  SECFilingsEnricher.enrich
\* writes, through a DatabaseManager of its own, only when EDGAR yielded a
\* company, on the attempt that returns: one upsert into company_filings for
\* each of at most the first StoreCap filings; it writes nothing for an
\* ineligible company, for a failed lookup or for a company not found.
C19_OnlySECWritesFilings ==
    pc = "enrich_call" =>
       /\ EnricherClasses[eidx] # "SECFilingsEnricher" => w.upserts = 0
       /\ w.upserts <= StoreCap
       /\ w.status # "returned" => w.upserts = 0
       /\ w.upserts > 0 =>
             /\ EnricherClasses[eidx] = "SECFilingsEnricher"
             /\ validate_input(companies[idx])
             /\ Truthy(w.value)
             /\ w.upserts = Min(w.value["sec_filings_count"], StoreCap)
             /\ w.provider_calls >= 1

\* C19 witness: the SEC enricher returned for a company with StoreCap + 1
\* filings and made StoreCap upserts into company_filings.
C19_Witness ==
    /\ pc = "enrich_call"
    /\ EnricherClasses[eidx] = "SECFilingsEnricher"
    /\ w.status = "returned"
    /\ Truthy(w.value)
    /\ w.value["sec_filings_count"] = StoreCap + 1
    /\ w.upserts = StoreCap

\* C20 as stated: for every limit that is given, 0 included, the result of
\* fetch_companies is the first limit rows of the company table, in storage
\* order and never more than limit rows; without a limit it is all rows.
C20_FetchLimit ==
    pc = "fetched" =>
       IF idx = NoLimit
       THEN companies = companies_bbt
       ELSE /\ Len(companies) <= idx
            /\ companies = SubSeq(companies_bbt, 1, Min(idx, Len(companies_bbt)))

\* C20, what the code guarantees: a limit of 1 or more gives the first limit
\* rows in storage order; no limit, and a limit of 0, give all rows.
C20_FetchLimitTruthy ==
    pc = "fetched" =>
       IF idx = NoLimit \/ idx = 0
       THEN companies = companies_bbt
       ELSE /\ Len(companies) = Min(idx, Len(companies_bbt))
            /\ \A i \in 1 .. Len(companies) : companies[i] = companies_bbt[i]

\* C20 witness: fetch_companies(0) on a table of two rows returned both.
C20_Witness ==
    /\ pc = "fetched"
    /\ idx = 0
    /\ Len(companies_bbt) = 2
    /\ companies = companies_bbt

\* A credential of the environment is absent or empty
LacksCredential ==
    \/ environ.SUPABASE_URL \in {Unset, ""}
    \/ environ.SUPABASE_KEY \in {Unset, ""}

\* The positions of main() at which a Config instance exists
ConfigExists == pc \notin {"main", "main_raised"} \/ config.built

\* The positions of main() at which the pipeline (its DatabaseManager and
\* its enrichers) has been constructed
PipelineExists == pc \notin {"main", "main_raised", "configured"}

RECURSIVE SumSeq(_)
SumSeq(q) == IF q = <<>> THEN 0 ELSE Head(q) + SumSeq(Tail(q))

InvocationEdges ==
    {<<"pending", "validating">>,
     <<"validating", "skipped">>, <<"validating", "calling-provider">>,
     <<"skipped", "success">>,
     <<"calling-provider", "success">>, <<"calling-provider", "retry">>,
     <<"calling-provider", "failed">>,
     <<"retry", "validating">>}

InvocationEnded == pc \in {"success", "failed"}

\* C23: an enricher invocation moves only along pending -> validating ->
\* (skipped | calling-provider) -> (success | retry | failed), retry leading
\* only to the validation of a new attempt.  The provider is called only
\* from calling-provider, which is entered only after a validation that
\* passed; skipped is reached with no provider call made and ends in
\* success with the empty mapping; failed is reached only when all three
\* attempts raised and carries the last exception; nothing happens after
\* success or failed; and every invocation reaches success or failed.
C23_InvocationStateMachine ==
    /\ [][pc' # pc => <<pc, pc'>> \in InvocationEdges]_vars
    /\ [][w'.provider_calls # w.provider_calls =>
             /\ pc = "calling-provider"
             /\ w'.provider_calls = w.provider_calls + 1]_vars
    /\ [](pc = "calling-provider" => ~LacksTicker(companies[idx]))
    /\ [](pc = "skipped" =>
             /\ LacksTicker(companies[idx])
             /\ w.provider_calls = 0)
    /\ [][pc = "skipped" => (pc' = "success" /\ w'.value = EmptyMap)]_vars
    /\ [](pc = "success" => w.status = "returned")
    /\ [](pc = "failed" =>
             /\ w.status = "raised"
             /\ w.attempt = EnrichMaxRetries + 1
             /\ w.raised = w.last_exception
             /\ w.raised # "None")
    /\ [](pc = "retry" => (w.status = "running" /\ w.attempt <= EnrichMaxRetries))
    /\ [][InvocationEnded => UNCHANGED vars]_vars
    /\ <>InvocationEnded

\* C23 witness: a Yahoo invocation that failed after three validated
\* provider calls.
C23_Witness ==
    /\ pc = "failed"
    /\ EnricherClasses[eidx] = "YahooFinanceEnricher"
    /\ w.provider_calls = 3
    /\ Len(w.sleeps) = 2

\* An enricher call (an attempt or the sleep between two attempts) is in
\* progress
EnricherActive == w.status = "running"

\* A step that called batch_update_companies
StorageStep == obs'.flushes # obs.flushes

\* A step of an enricher call, or one that starts the next call
EnricherStep == w' # w

\* C24: sequential execution.  During run() a step is either part of one
\* enricher call or one storage write, never both, and an enricher call is
\* in progress only inside _enrich_company, never while the result is
\* appended or the buffer is saved.  For one company the enrichers are
\* called in the enabled order, call k + 1 starting only when call k has
\* returned or raised.  The loop moves to the next company only from the
\* end of the previous company's step (enrichment, append and save all
\* done), and visits the companies one by one in the order fetch_companies
\* returned them, which is the order of the table.
C24_Sequential ==
    /\ [][~(EnricherStep /\ StorageStep)]_vars
    /\ [](EnricherActive => pc = "enrich")
    /\ [](pc = "enrich" =>
             /\ EnricherActive
             /\ eidx \in 1 .. Len(ENABLED_ENRICHERS)
             /\ Len(obs.outcomes) = eidx - 1
             /\ \A k \in 1 .. Len(obs.outcomes) :
                   obs.outcomes[k].status \in {"returned", "raised"})
    /\ [][(pc = "enrich" /\ eidx' # eidx) =>
             /\ Len(obs'.outcomes) = eidx
             /\ \/ eidx' = eidx + 1 /\ pc' = "enrich" /\ w'.attempt = 0
                \/ eidx = Len(ENABLED_ENRICHERS) /\ eidx' = 0 /\ pc' = "append"]_vars
    /\ [](pc \in {"append", "save"} =>
             /\ ~EnricherActive
             /\ Len(obs.outcomes) = Len(ENABLED_ENRICHERS)
             /\ idx = obs.visited[Len(obs.visited)])
    /\ [][(pc \notin {"ready", "done", "raised"} /\ idx' # idx) =>
             /\ pc = "save"
             /\ idx' = idx + 1
             /\ pc' = "loop"]_vars
    /\ [][obs'.visited # obs.visited /\ pc = "loop" =>
             /\ obs'.visited = Append(obs.visited, Len(obs.visited) + 1)
             /\ idx = Len(obs.visited) + 1
             /\ ticker' = TickerOf(companies[idx])
             /\ pc' \in {"enrich", "append"}]_vars
    /\ [](\A k \in 1 .. Len(obs.visited) :
             /\ obs.visited[k] = k
             /\ k <= Len(companies))
    /\ [](/\ Len(companies) <= Len(companies_bbt)
          /\ \A k \in 1 .. Len(companies) : companies[k] = companies_bbt[k])
    /\ [](pc \in {"summary", "done"} => obs.visited = AllPositions)

\* C24 witness: the second company is in the second enricher's call, after
\* the first company's step was finished with a flush.
C24_Witness ==
    /\ pc = "enrich"
    /\ idx = 2
    /\ eidx = 2
    /\ w.attempt = 1
    /\ obs.visited = <<1, 2>>
    /\ obs.flushes = 1
    /\ processed_count = 1

\* The enricher classes whose enrich body calls a provider
ProviderClasses ==
    {"YahooFinanceEnricher", "SECFilingsEnricher",
     "LLMInvestorInformationEnricher"}

\* C25: default retry policy of enrichers.  Whatever Config.max_retries and
\* Config.retry_delay are, the call of every enricher class runs under
\* max_retries 2 and base delay 1: at most three attempts and three provider
\* calls (one per attempt when the class has a provider and the company a
\* ticker), sleeps of 1 and then 2, and a raise only after the third
\* attempt.  Nothing in the call depends on the two options.
C25_DefaultRetryPolicy ==
    pc = "enrich_call" =>
       /\ w.max_retries = 2
       /\ w.delay = 1
       /\ Len(w.trace) <= 3
       /\ w.provider_calls <= 3
       /\ Len(w.sleeps) <= 2
       /\ \A i \in 1 .. Len(w.sleeps) : w.sleeps[i] = i
       /\ w.status = "raised" => (Len(w.trace) = 3 /\ w.sleeps = <<1, 2>>)
       /\ (EnricherClasses[eidx] \in ProviderClasses
             /\ ~LacksTicker(companies[idx])) =>
              w.provider_calls = Len(w.trace)

\* C25 witness: with Config.max_retries = 0 and Config.retry_delay = 2 the
\* LLM enricher still made three provider calls and slept 1 and 2.
C25_Witness ==
    /\ pc = "enrich_call"
    /\ config.max_retries = 0
    /\ config.retry_delay = 2
    /\ EnricherClasses[eidx] = "LLMInvestorInformationEnricher"
    /\ w.status = "raised"
    /\ w.provider_calls = 3
    /\ w.sleeps = <<1, 2>>

\* The three fields the prompt asks the LLM for
LLMPromptKeys ==
    {"primary_website", "investor_section_url", "corporate_presentation_urls"}

\* The provider answered with a JSON object in which field k is null
NullField(answer, k) ==
    /\ answer.kind = "dict"
    /\ k \in DOMAIN answer.data
    /\ answer.data[k] = Null

\* An attempt of the LLM enricher for a company with a ticker
LLMAttempts ==
    IF /\ pc = "enrich_call"
       /\ EnricherClasses[eidx] = "LLMInvestorInformationEnricher"
       /\ ~LacksTicker(companies[idx])
    THEN 1 .. Len(w.trace) ELSE {}

\* The attempt returned what the payload holds, without the null entries
ReturnedWithoutNulls(i) ==
    LET a == w.trace[i]
        v == a.value
    IN  /\ a.kind = "return"
        /\ \A k \in DOMAIN v : v[k] # Null
        /\ \A k \in LLMPromptKeys \ {"corporate_presentation_urls"} :
              LET f == IF k = "primary_website" THEN "llm_primary_website"
                       ELSE "llm_investor_section_url"
              IN  IF Get(a.answer.data, k) = Null
                  THEN f \notin DOMAIN v
                  ELSE f \in DOMAIN v /\ v[f] = a.answer.data[k]
        /\ i = Len(w.trace)
        /\ w.status = "returned"
        /\ w.value = v

\* C26 (as claimed): whenever the LLM answers with an object in which
\* primary_website, investor_section_url or corporate_presentation_urls is
\* null, that attempt returns the mapping built from the payload without the
\* null entries and ends the call: no failure, no retry.
C26_LLMNullFieldsSucceed ==
    \A i \in LLMAttempts :
       (\E k \in LLMPromptKeys : NullField(w.trace[i].answer, k)) =>
          ReturnedWithoutNulls(i)

\* C26 (what the code does): the above holds when corporate_presentation_urls
\* is not null; when it is null the attempt raises TypeError, whatever the
\* other fields are, and the wrapper goes on to the next attempt.
C26_LLMNullUrlsRaise ==
    \A i \in LLMAttempts :
       LET a == w.trace[i]
       IN  /\ NullField(a.answer, "corporate_presentation_urls") =>
                 /\ a.kind = "raise"
                 /\ a.exc = "TypeError"
                 /\ w.provider_calls >= i
                 /\ i < 3 => (w.status = "running" \/ Len(w.trace) > i)
           /\ (/\ ~NullField(a.answer, "corporate_presentation_urls")
               /\ \E k \in LLMPromptKeys : NullField(a.answer, k)) =>
                 ReturnedWithoutNulls(i)

\* C26 witness: the LLM answered three times with a null
\* corporate_presentation_urls; the call made three provider calls and ended
\* with TypeError.
C26_Witness ==
    /\ LLMAttempts = 1 .. 3
    /\ \A i \in 1 .. 3 :
          NullField(w.trace[i].answer, "corporate_presentation_urls")
    /\ w.status = "raised"
    /\ w.raised = "TypeError"
    /\ w.provider_calls = 3
    /\ w.sleeps = <<1, 2>>

\* A step in which some entry left the results buffer
EntryLeaves ==
    \/ Ids(results_buffer) \ Ids(results_buffer') # {}
    \/ Len(results_buffer') < Len(results_buffer)

\* The step was a flush of the whole buffer in which update_company was
\* called for every entry, in order, and succeeded every time
FullySuccessfulFlush ==
    /\ obs'.flushes = obs.flushes + 1
    /\ obs'.failed_flushes = obs.failed_flushes
    /\ obs'.last_flush.ok
    /\ obs'.last_flush.batch = results_buffer
    /\ Len(obs'.last_flush.calls) = Len(results_buffer)
    /\ \A k \in 1 .. Len(results_buffer) :
          /\ obs'.last_flush.calls[k].ok
          /\ obs'.last_flush.calls[k].updates = results_buffer[k]
          /\ obs'.last_flush.calls[k].ticker = results_buffer[k]["Ticker"]

\* C27: the buffer is cleared only after a fully successful batch.  An entry
\* leaves the results buffer only in a step that flushed the whole buffer
\* with every update_company call succeeding, and then the buffer is empty;
\* a step whose flush failed leaves the buffer exactly as it was.
C27_ClearedOnlyAfterSuccess ==
    [][/\ EntryLeaves => (FullySuccessfulFlush /\ results_buffer' = <<>>)
       /\ obs'.failed_flushes # obs.failed_flushes =>
             /\ results_buffer' = results_buffer
             /\ results_buffer # <<>>
             /\ ~obs'.last_flush.ok
             /\ obs'.last_flush.batch = results_buffer
             /\ \E k \in 1 .. Len(obs'.last_flush.calls) :
                   ~obs'.last_flush.calls[k].ok]_vars

\* C27 witness: a flush of two entries failed at the second update, after
\* the first one was written, and both entries are still buffered.
C27_Witness ==
    /\ Len(results_buffer) = 2
    /\ ~obs.last_flush.ok
    /\ obs.last_flush.batch = results_buffer
    /\ Len(obs.last_flush.calls) = 2
    /\ obs.last_flush.calls[1].ok
    /\ ~obs.last_flush.calls[2].ok

\* How many times update_company succeeded for the entry stamped id
TimesWritten(id) ==
    Cardinality({k \in 1 .. Len(obs.written) : obs.written[k] = id})

\* C28 (as claimed): in one run() update_company succeeds at most once for
\* each result appended to the buffer.
C28_AtMostOnceWrite ==
    \A id \in SeqToSet(obs.written) : TimesWritten(id) <= 1

\* C28 (amended): a buffered result is written once by every flush that
\* reaches it, and the flushes that reach it are the failed ones it went
\* through and the one that succeeds: update_company succeeds for it at
\* most once more than flushes of the run have failed.  It is written a
\* second time only after a flush that failed held it back, and never when
\* no flush failed; an entry still buffered that was already written is
\* held back by a failed flush.
C28_WriteReplayBounded ==
    /\ \A id \in SeqToSet(obs.written) :
          /\ TimesWritten(id) <= obs.failed_flushes + 1
          /\ TimesWritten(id) >= 2 => id \in obs.retried_ids
          /\ id \in Ids(results_buffer) => id \in obs.failed_ids
    /\ obs.failed_flushes = 0 =>
          \A id \in SeqToSet(obs.written) : TimesWritten(id) = 1

\* C28 witness: the first flush wrote entry 1 and failed at entry 2; the
\* final flush wrote entry 1 again and then entry 2.
C28_Witness ==
    /\ pc = "done"
    /\ obs.written = <<1, 1, 2>>
    /\ obs.failed_flushes = 1
    /\ results_buffer = <<>>

\* The companies of the current run whose per-company step completed
\* without raising
CompletedSteps == Len(obs.visited) - Len(obs.raised_at)

\* C29 (as claimed): for every run() on an instance, also a second one, the
\* summary's processed count is at most the number of companies fetched in
\* that run and equals the number of that run's companies whose step
\* completed; every run starts with an empty results buffer.
C29_ProcessedCountBound ==
    /\ obs.start_buffer = 0
    /\ pc = "done" =>
          /\ summary.processed <= summary.total
          /\ summary.processed = CompletedSteps

\* C29 (what the code does): processed_count and the buffer belong to the
\* instance and are initialised by the constructor only.  The summary of a
\* run reports the steps completed in all runs of the instance so far, and
\* a run starts with whatever the previous run left in the buffer; the
\* claimed bound holds for the first run.
C29_ProcessedCountCumulative ==
    /\ pc = "done" =>
          /\ summary.total = Len(companies)
          /\ summary.processed = obs.start_processed + CompletedSteps
    /\ runs = 1 =>
          /\ obs.start_processed = 0
          /\ obs.start_buffer = 0
          /\ pc = "done" => summary.processed <= summary.total

\* C29 witness: the second run() on the instance fetched two companies and
\* reported four processed.
C29_Witness ==
    /\ pc = "done"
    /\ runs = 2
    /\ summary.total = 2
    /\ summary.processed = 4
    /\ obs.start_processed = 2

\* Tickers that identify no company: the empty and the null ticker, and the
\* placeholder _enrich_company's caller uses when the key is missing
NoTickers == {"", NullTicker, "Unknown"}

\* The positions of the current run whose step is over
StepsOver == {i \in SeqToSet(obs.visited) : i < idx}

\* C30: no storage write for an unidentified company.  With enrichers that
\* validate their input, a fetched company without a ticker, or with an
\* empty one, yields an empty aggregate and no buffer entry: no buffered
\* entry and no update_company call carries the ticker 'Unknown' or an
\* empty ticker, every buffered entry and every update belongs to a company
\* of the table that has a ticker, and the company's step still completes
\* and is counted as processed.
C30_NoWriteForUnidentified ==
    /\ \A k \in 1 .. Len(results_buffer) :
          /\ results_buffer[k]["Ticker"] \notin NoTickers
          /\ \E i \in 1 .. Len(companies) :
                /\ ~LacksTicker(companies[i])
                /\ companies[i]["Ticker"] = results_buffer[k]["Ticker"]
    /\ \A k \in 1 .. Len(obs.last_flush.calls) :
          /\ obs.last_flush.calls[k].ticker \notin NoTickers
          /\ obs.last_flush.calls[k].updates["Ticker"] \notin NoTickers
    /\ (pc \in {"append", "save"} /\ LacksTicker(companies[idx])) =>
          /\ \A e \in 1 .. Len(obs.outcomes) :
                /\ obs.outcomes[e].status = "returned"
                /\ obs.outcomes[e].value = EmptyMap
          /\ enriched_data = EmptyMap
          /\ Now \notin Ids(results_buffer)
    /\ \A i \in StepsOver :
          LacksTicker(companies[i]) =>
             /\ i \notin SeqToSet(obs.appended)
             /\ i \notin SeqToSet(obs.written)
             /\ i \notin SeqToSet(obs.raised_at)
    /\ pc \in {"loop", "summary", "done"} =>
          processed_count = Cardinality(StepsOver)

\* C30 witness: run() has returned from a table whose first row has an
\* empty ticker and whose second row has one; both were counted, only the
\* second was written.
C30_Witness ==
    /\ pc = "done"
    /\ Len(companies) = 2
    /\ companies[1] = [Ticker |-> ""]
    /\ ~LacksTicker(companies[2])
    /\ processed_count = 2
    /\ summary.processed = 2
    /\ obs.written = <<2>>

====
